---- MODULE Spec2Model ----
(***************************************************************************)
(* A model of src/geom/ellipse.rs: the Ellipse and Section value types,    *)
(* the Circumference point iterator and the Triangles fan iterator.        *)
(*                                                                         *)
(* usize is modelled as an unsigned word of UsizeBits bits.  The scalar    *)
(* type S (a binary floating point type such as f32 or f64) is modelled as *)
(* a binary floating point format with Precision significant bits, round   *)
(* to nearest (ties to even), gradual underflow with quantum 2^-FracBits,  *)
(* the two infinities and NaN.  cos and sin are left uninterpreted: a      *)
(* coordinate records the operands it is computed from.                    *)
(***************************************************************************)
EXTENDS Integers, Sequences, FiniteSets, TLC

\* Width of usize in bits (scaled down).
UsizeBits == 5
\* Significant bits of the scalar format (scaled down).
Precision == 4
\* The scalar format's smallest positive value is 2^-FracBits.
FracBits == 5

RECURSIVE Pow2(_)
Pow2(n) == IF n <= 0 THEN 1 ELSE 2 * Pow2(n - 1)

UsizeMod == Pow2(UsizeBits)
UsizeMax == UsizeMod - 1

\* overflow-checks on (debug profile: overflow panics) or off (release
\* profile: overflow wraps).
Builds == {"debug", "release"}

VARIABLES
    build,      \* the build profile of the program
    pc,         \* which value the client holds: "start", "ellipse", "section",
                \* "circ", "tri" or "panicked"
    ellipse,    \* the Ellipse held (pc = "ellipse")
    sect,       \* the Section held (pc = "section")
    circ,       \* the Circumference held (pc = "circ"), or Triangles.points
    last,       \* Triangles.last (pc = "tri")
    ret,        \* the value returned by the latest call
    origin,     \* history: the constructor call the iterator comes from
    touched,    \* history: a builder was applied to the constructed iterator
    pulls,      \* history: points produced by Circumference::next so far
    lastPulled, \* history: the latest point produced by Circumference::next
    prevPulled, \* history: the point produced before lastPulled
    fan         \* history of the fan: points left when it was built,
                \* triangles yielded, the latest triangle

vars == <<build, pc, ellipse, sect, circ, last, ret, origin, touched, pulls,
          lastPulled, prevPulled, fan>>

----------------------------------------------------------------------------
(* usize arithmetic *)

\* a + b on usize: the wrapped value, and whether the addition overflowed.
UAdd(a, b) == [v |-> (a + b) % UsizeMod, ovf |-> a + b > UsizeMax]

\* a - b on usize: the wrapped value, and whether the subtraction overflowed.
USub(a, b) == [v |-> (a - b + UsizeMod) % UsizeMod, ovf |-> a < b]

UMax(a, b) == IF a >= b THEN a ELSE b

----------------------------------------------------------------------------
(* The scalar type S.  A finite value n / 2^FracBits is [k |-> "fin",      *)
(* v |-> n]; signed zeros are not distinguished.                           *)

Unit == Pow2(FracBits)

Fin(n) == [k |-> "fin", v |-> n]
Inf(s) == [k |-> "inf", v |-> s]
NaN == [k |-> "nan", v |-> 0]

Abs(n) == IF n < 0 THEN -n ELSE n
Sign(n) == IF n < 0 THEN -1 ELSE IF n > 0 THEN 1 ELSE 0

\* The exponent e >= 0 with a / (b * 2^e) < 2^Precision, least such.
RECURSIVE Quantum(_, _, _)
Quantum(a, b, q) ==
    IF a < b * q * Pow2(Precision) THEN q ELSE Quantum(a, b, 2 * q)

\* The rational a / b (a >= 0, b > 0, in units of 2^-FracBits) rounded to the
\* nearest value of the format, ties to the even significand.
RoundMag(a, b) ==
    LET q == Quantum(a, b, 1)
        m == a \div (b * q)
        r == a % (b * q)
        up == 2 * r > b * q \/ (2 * r = b * q /\ m % 2 = 1)
    IN  (IF up THEN m + 1 ELSE m) * q

\* The rational n / d (d > 0) rounded to the format.
RoundRat(n, d) == Fin(Sign(n) * RoundMag(Abs(n), d))

FZero == Fin(0)

\* S::from(n) for a usize n, and NumCast::from(n).
FromUsize(n) == RoundRat(n * Unit, 1)

\* math::two()
FTwo == RoundRat(2 * Unit, 1)

\* S::from(2.0 * PI): 2 pi = 6.2832 rounded to the format.
TwoPi == RoundRat(6283 * Unit, 1000)

FNeg(a) == [k |-> a.k, v |-> -a.v]

FAdd(a, b) ==
    IF a.k = "nan" \/ b.k = "nan" THEN NaN
    ELSE IF a.k = "inf" /\ b.k = "inf" THEN (IF a.v = b.v THEN a ELSE NaN)
    ELSE IF a.k = "inf" THEN a
    ELSE IF b.k = "inf" THEN b
    ELSE RoundRat(a.v + b.v, 1)

FMul(a, b) ==
    IF a.k = "nan" \/ b.k = "nan" THEN NaN
    ELSE IF a.k = "inf" \/ b.k = "inf"
         THEN (IF a.v = 0 \/ b.v = 0 THEN NaN ELSE Inf(Sign(a.v) * Sign(b.v)))
    ELSE RoundRat(a.v * b.v, Unit)

FDiv(a, b) ==
    IF a.k = "nan" \/ b.k = "nan" THEN NaN
    ELSE IF a.k = "inf"
         THEN (IF b.k = "inf" THEN NaN
               ELSE Inf(a.v * (IF b.v < 0 THEN -1 ELSE 1)))
    ELSE IF b.k = "inf" THEN FZero
    ELSE IF b.v = 0 THEN (IF a.v = 0 THEN NaN ELSE Inf(Sign(a.v)))
    ELSE RoundRat(a.v * Unit * Sign(b.v), Abs(b.v))

IsFinite(a) == a.k = "fin"

----------------------------------------------------------------------------
(* Points, triangles, rectangles *)

\* The coordinate base + scale * fn(arg), fn being cos or sin.  With a zero
\* scale and finite operands the sum is base itself; otherwise the value
\* is kept as the term it is computed from.
Coord(base, scale, f, arg) ==
    IF scale = FZero /\ IsFinite(base) /\ IsFinite(arg) THEN base
    ELSE [base |-> base, scale |-> scale, fn |-> f, arg |-> arg]

Point2(x, y) == [x |-> x, y |-> y]

Tri(a, b, c) == <<a, b, c>>

\* Rect::x_y_w_h
x_y_w_h(rect) == <<rect.x, rect.y, rect.w, rect.h>>

----------------------------------------------------------------------------
(* Ellipse and Section *)

\* Ellipse::new
Ellipse_new(rect, resolution) == [rect |-> rect, resolution |-> resolution]

\* Ellipse::section
Ellipse_section(self, offset_radians, section_radians) ==
    [ellipse |-> self, offset_radians |-> offset_radians,
     section_radians |-> section_radians]

----------------------------------------------------------------------------
(* Circumference.  An operation that can panic returns [panic, c].         *)

NoCirc == [index |-> 0, num_points |-> 0, middle |-> Point2(FZero, FZero),
           rad_step |-> FZero, rad_offset |-> FZero,
           half_w |-> FZero, half_h |-> FZero]

Panic == [panic |-> TRUE, c |-> NoCirc]
Ok(c) == [panic |-> FALSE, c |-> c]

\* Circumference::new_inner
new_inner(rect, num_points, rad_step) ==
    LET xywh == x_y_w_h(rect)
        two == FTwo
    IN  [index |-> 0,
         num_points |-> num_points,
         middle |-> Point2(xywh[1], xywh[2]),
         half_w |-> FDiv(xywh[3], two),
         half_h |-> FDiv(xywh[4], two),
         rad_step |-> rad_step,
         rad_offset |-> FZero]

\* new_section dividing the span by the number of points instead of the
\* resolution.
new_section_by_points(rect, resolution, radians) ==
    LET n == UAdd(resolution, 1)
        res == FromUsize(n.v)
    IN  IF n.ovf /\ build = "debug" THEN Panic
        ELSE Ok(new_inner(rect, n.v, FDiv(radians, res)))

\* Circumference::new_section
new_section(rect, resolution, radians) ==
    LET res == FromUsize(resolution)
        n == UAdd(resolution, 1)
    IN  IF n.ovf /\ build = "debug" THEN Panic
        ELSE Ok(new_inner(rect, n.v, FDiv(radians, res)))

\* new without the clamp of the resolution.
Circumference_new_unclamped(rect, resolution0) ==
    new_section(rect, resolution0, TwoPi)

\* Circumference::new
Circumference_new(rect, resolution0) ==
    LET resolution == UMax(resolution0, 1)
        radians == TwoPi
    IN  new_section(rect, resolution, radians)

\* section rebuilding the iterator, which restarts it.
Circumference_section_restart(self, radians) ==
    LET resolution == USub(self.num_points, 1)
        res == FromUsize(resolution.v)
    IN  IF resolution.ovf /\ build = "debug" THEN Panic
        ELSE Ok([self EXCEPT !.rad_step = FDiv(radians, res), !.index = 0])

\* Circumference::section
Circumference_section(self, radians) ==
    LET resolution == USub(self.num_points, 1)
        res == FromUsize(resolution.v)
    IN  IF resolution.ovf /\ build = "debug" THEN Panic
        ELSE Ok([self EXCEPT !.rad_step = FDiv(radians, res)])

\* Circumference::offset_radians
Circumference_offset_radians(self, radians) ==
    [self EXCEPT !.rad_offset = radians]

\* Option<T>
None == [some |-> FALSE, val |-> <<>>]
Some(v) == [some |-> TRUE, val |-> <<v>>]
unwrap_or(opt, default) == IF opt.some THEN opt.val[1] ELSE default

\* next with an inclusive bound on the index.
Circumference_next_inclusive(self) ==
    IF self.index > self.num_points THEN [item |-> None, c |-> self]
    ELSE LET index_s == FromUsize(self.index)
             angle == FAdd(self.rad_offset, FMul(self.rad_step, index_s))
             x == Coord(self.middle.x, self.half_w, "cos", angle)
             y == Coord(self.middle.y, self.half_h, "sin", angle)
         IN  [item |-> Some(Point2(x, y)),
              c |-> [self EXCEPT !.index = UAdd(self.index, 1).v]]

\* Iterator for Circumference: next.  Returns the item and the iterator
\* after the call.
Circumference_next(self) ==
    IF self.index >= self.num_points THEN [item |-> None, c |-> self]
    ELSE LET index_s == FromUsize(self.index)
             angle == FAdd(self.rad_offset, FMul(self.rad_step, index_s))
             x == Coord(self.middle.x, self.half_w, "cos", angle)
             y == Coord(self.middle.y, self.half_h, "sin", angle)
         IN  [item |-> Some(Point2(x, y)),
              c |-> [self EXCEPT !.index = UAdd(self.index, 1).v]]

\* ExactSizeIterator for Circumference: len.  [panic, v].
Circumference_len(self) ==
    LET d == USub(self.num_points, self.index)
    IN  [panic |-> d.ovf /\ build = "debug", v |-> d.v]

\* Iterator for Circumference: size_hint
Circumference_size_hint(self) ==
    LET len == Circumference_len(self)
    IN  [panic |-> len.panic, v |-> <<len.v, Some(len.v)>>]

\* Ellipse::circumference
Ellipse_circumference(self) == Circumference_new(self.rect, self.resolution)

\* Section::circumference
Section_circumference(self) ==
    LET circ0 == new_section(self.ellipse.rect, self.ellipse.resolution,
                             self.section_radians)
    IN  IF circ0.panic THEN Panic
        ELSE Ok(Circumference_offset_radians(circ0.c, self.offset_radians))

----------------------------------------------------------------------------
(* Triangles *)

\* triangles without the pull that seeds last.
Circumference_triangles_unseeded(self) ==
    [last |-> self.middle, points |-> self, pulled |-> None]

\* Circumference::triangles.  [last, points], and the point pulled.
Circumference_triangles(self) ==
    LET nx == Circumference_next(self)
    IN  [last |-> unwrap_or(nx.item, self.middle), points |-> nx.c,
         pulled |-> nx.item]

\* Triangles::next without the update of last.
Triangles_next_stale(points, last0) ==
    LET nx == Circumference_next(points)
    IN  IF nx.item.some
        THEN [item |-> Some(Tri(nx.c.middle, last0, nx.item.val[1])),
              last |-> last0, points |-> nx.c, pulled |-> nx.item]
        ELSE [item |-> None, last |-> last0, points |-> nx.c, pulled |-> nx.item]

\* Iterator for Triangles: next.  Returns the item, the fields after the
\* call and the point pulled.
Triangles_next(points, last0) ==
    LET nx == Circumference_next(points)
    IN  IF nx.item.some
        THEN [item |-> Some(Tri(nx.c.middle, last0, nx.item.val[1])),
              last |-> nx.item.val[1], points |-> nx.c, pulled |-> nx.item]
        ELSE [item |-> None, last |-> last0, points |-> nx.c, pulled |-> nx.item]

\* ExactSizeIterator for Triangles: len
Triangles_len(points) == Circumference_len(points)

\* Iterator for Triangles: size_hint
Triangles_size_hint(points) ==
    LET len == Triangles_len(points)
    IN  [panic |-> len.panic, v |-> <<len.v, Some(len.v)>>]

----------------------------------------------------------------------------
(* The inputs the client draws from *)

\* The largest resolution of the small range.
MaxResolution == 3

\* The resolutions requested: a small range, and the largest usize.
Resolutions == (0 .. MaxResolution) \cup {UsizeMax}

HalfTurn == FDiv(TwoPi, FTwo)

Rects == {[x |-> FZero, y |-> FZero, w |-> FromUsize(2), h |-> FromUsize(2)],
          [x |-> FromUsize(1), y |-> FZero, w |-> FZero, h |-> FromUsize(4)]}

\* Spans a section is constructed with.
SectionRadians == {FZero, TwoPi, FNeg(HalfTurn)}

\* Spans Circumference::section is called with.
BuilderRadians == {FZero, HalfTurn}

OffsetRadians == {FZero, HalfTurn}

----------------------------------------------------------------------------
(* The state machine: the calls a client can make on the value it holds *)

NoEllipse == Ellipse_new(CHOOSE r \in Rects : TRUE, 0)
NoSection == Ellipse_section(NoEllipse, FZero, FZero)
NoPoint == Point2(FZero, FZero)
NoOrigin == [ctor |-> "none", rect |-> CHOOSE r \in Rects : TRUE,
             resolution |-> 0, radians |-> FZero, offset |-> FZero]
NoFan == [n |-> 0, count |-> 0, tri |-> None, prev |-> None]

\* The latest call: its name, its scalar argument if any, and what it
\* returned (an Option, a length).
Ret(op, arg, item, n) == [op |-> op, arg |-> arg, item |-> item, n |-> n]

Init ==
    /\ build \in Builds
    /\ pc = "start"
    /\ ellipse = NoEllipse
    /\ sect = NoSection
    /\ circ = NoCirc
    /\ last = NoPoint
    /\ ret = Ret("none", None, None, 0)
    /\ origin = NoOrigin
    /\ touched = FALSE
    /\ pulls = 0
    /\ lastPulled = None
    /\ prevPulled = None
    /\ fan = NoFan

\* The client comes to hold the Circumference r.c built by the constructor
\* call o, or the constructor panicked.
Built(r, o, op) ==
    /\ pc' = IF r.panic THEN "panicked" ELSE "circ"
    /\ circ' = r.c
    /\ origin' = o
    /\ ret' = Ret(op, None, None, 0)
    /\ UNCHANGED <<build, ellipse, sect, last, touched, pulls, lastPulled, prevPulled, fan>>

\* The client comes to hold the Triangles built by c.triangles().
BuiltFan(c, op) ==
    LET t == Circumference_triangles(c)
    IN  /\ pc' = "tri"
        /\ circ' = t.points
        /\ last' = t.last
        /\ pulls' = IF t.pulled.some THEN pulls + 1 ELSE pulls
        /\ lastPulled' = IF t.pulled.some THEN t.pulled ELSE lastPulled
        /\ prevPulled' = IF t.pulled.some THEN lastPulled ELSE prevPulled
        /\ fan' = [n |-> Circumference_len(c).v, count |-> 0,
                   tri |-> None, prev |-> None]
        /\ ret' = Ret(op, None, None, 0)

EllipseNew(rect, resolution) ==
    /\ pc = "start"
    /\ pc' = "ellipse"
    /\ ellipse' = Ellipse_new(rect, resolution)
    /\ ret' = Ret("Ellipse::new", None, None, 0)
    /\ UNCHANGED <<build, sect, circ, last, origin, touched, pulls, lastPulled, prevPulled, fan>>

EllipseSection(offset_radians, section_radians) ==
    /\ pc = "ellipse"
    /\ pc' = "section"
    /\ sect' = Ellipse_section(ellipse, offset_radians, section_radians)
    /\ ret' = Ret("Ellipse::section", None, None, 0)
    /\ UNCHANGED <<build, ellipse, circ, last, origin, touched, pulls, lastPulled, prevPulled, fan>>

EllipseOrigin ==
    [ctor |-> "Ellipse::circumference", rect |-> ellipse.rect,
     resolution |-> ellipse.resolution, radians |-> TwoPi, offset |-> FZero]

SectionOrigin ==
    [ctor |-> "Section::circumference", rect |-> sect.ellipse.rect,
     resolution |-> sect.ellipse.resolution, radians |-> sect.section_radians,
     offset |-> sect.offset_radians]

EllipseCircumference ==
    /\ pc = "ellipse"
    /\ Built(Ellipse_circumference(ellipse), EllipseOrigin, "Ellipse::circumference")

SectionCircumference ==
    /\ pc = "section"
    /\ Built(Section_circumference(sect), SectionOrigin, "Section::circumference")

CircumferenceNew(rect, resolution) ==
    /\ pc = "start"
    /\ Built(Circumference_new(rect, resolution),
             [ctor |-> "Circumference::new", rect |-> rect,
              resolution |-> resolution, radians |-> TwoPi, offset |-> FZero],
             "Circumference::new")

CircumferenceNewSection(rect, resolution, radians) ==
    /\ pc = "start"
    /\ Built(new_section(rect, resolution, radians),
             [ctor |-> "Circumference::new_section", rect |-> rect,
              resolution |-> resolution, radians |-> radians, offset |-> FZero],
             "Circumference::new_section")

\* Ellipse::triangles
EllipseTriangles ==
    /\ pc = "ellipse"
    /\ LET r == Ellipse_circumference(ellipse)
       IN  IF r.panic
           THEN /\ pc' = "panicked"
                /\ ret' = Ret("Ellipse::triangles", None, None, 0)
                /\ UNCHANGED <<circ, last, pulls, lastPulled, prevPulled, fan>>
           ELSE BuiltFan(r.c, "Ellipse::triangles")
    /\ origin' = EllipseOrigin
    /\ UNCHANGED <<build, ellipse, sect, touched>>

\* Section::trangles
SectionTrangles ==
    /\ pc = "section"
    /\ LET r == Section_circumference(sect)
       IN  IF r.panic
           THEN /\ pc' = "panicked"
                /\ ret' = Ret("Section::trangles", None, None, 0)
                /\ UNCHANGED <<circ, last, pulls, lastPulled, prevPulled, fan>>
           ELSE BuiltFan(r.c, "Section::trangles")
    /\ origin' = SectionOrigin
    /\ UNCHANGED <<build, ellipse, sect, touched>>

\* circ.section(radians)
Section(radians) ==
    /\ pc = "circ"
    /\ LET r == Circumference_section(circ, radians)
       IN  /\ pc' = IF r.panic THEN "panicked" ELSE "circ"
           /\ circ' = IF r.panic THEN circ ELSE r.c
    /\ touched' = TRUE
    /\ ret' = Ret("section", Some(radians), None, 0)
    /\ UNCHANGED <<build, ellipse, sect, last, origin, pulls, lastPulled, prevPulled, fan>>

\* circ.offset_radians(radians)
OffsetRadiansCall(radians) ==
    /\ pc = "circ"
    /\ circ' = Circumference_offset_radians(circ, radians)
    /\ touched' = TRUE
    /\ ret' = Ret("offset_radians", Some(radians), None, 0)
    /\ UNCHANGED <<build, pc, ellipse, sect, last, origin, pulls, lastPulled, prevPulled, fan>>

\* circ.triangles()
Triangles ==
    /\ pc = "circ"
    /\ BuiltFan(circ, "triangles")
    /\ UNCHANGED <<build, ellipse, sect, origin, touched>>

\* circ.next()
Next_ ==
    /\ pc = "circ"
    /\ LET nx == Circumference_next(circ)
       IN  /\ circ' = nx.c
           /\ ret' = Ret("next", None, nx.item, 0)
           /\ pulls' = IF nx.item.some THEN pulls + 1 ELSE pulls
           /\ lastPulled' = IF nx.item.some THEN nx.item ELSE lastPulled
           /\ prevPulled' = IF nx.item.some THEN lastPulled ELSE prevPulled
    /\ UNCHANGED <<build, pc, ellipse, sect, last, origin, touched, fan>>

\* circ.len()
Len_ ==
    /\ pc = "circ"
    /\ LET r == Circumference_len(circ)
       IN  /\ pc' = IF r.panic THEN "panicked" ELSE pc
           /\ ret' = Ret("len", None, None, r.v)
    /\ UNCHANGED <<build, ellipse, sect, circ, last, origin, touched, pulls,
                   lastPulled, prevPulled, fan>>

\* circ.size_hint()
SizeHint ==
    /\ pc = "circ"
    /\ LET r == Circumference_size_hint(circ)
       IN  /\ pc' = IF r.panic THEN "panicked" ELSE pc
           /\ ret' = Ret("size_hint", None, r.v[2], r.v[1])
    /\ UNCHANGED <<build, ellipse, sect, circ, last, origin, touched, pulls,
                   lastPulled, prevPulled, fan>>

\* triangles.next()
TrianglesNext ==
    /\ pc = "tri"
    /\ LET nx == Triangles_next(circ, last)
       IN  /\ circ' = nx.points
           /\ last' = nx.last
           /\ ret' = Ret("Triangles::next", None, nx.item, 0)
           /\ pulls' = IF nx.pulled.some THEN pulls + 1 ELSE pulls
           /\ lastPulled' = IF nx.pulled.some THEN nx.pulled ELSE lastPulled
           /\ prevPulled' = IF nx.pulled.some THEN lastPulled ELSE prevPulled
           /\ fan' = IF nx.item.some
                     THEN [fan EXCEPT !.count = @ + 1, !.tri = nx.item,
                                      !.prev = fan.tri]
                     ELSE fan
    /\ UNCHANGED <<build, pc, ellipse, sect, origin, touched>>

\* triangles.len()
TrianglesLen ==
    /\ pc = "tri"
    /\ LET r == Triangles_len(circ)
       IN  /\ pc' = IF r.panic THEN "panicked" ELSE pc
           /\ ret' = Ret("Triangles::len", None, None, r.v)
    /\ UNCHANGED <<build, ellipse, sect, circ, last, origin, touched, pulls,
                   lastPulled, prevPulled, fan>>

\* triangles.size_hint()
TrianglesSizeHint ==
    /\ pc = "tri"
    /\ LET r == Triangles_size_hint(circ)
       IN  /\ pc' = IF r.panic THEN "panicked" ELSE pc
           /\ ret' = Ret("Triangles::size_hint", None, r.v[2], r.v[1])
    /\ UNCHANGED <<build, ellipse, sect, circ, last, origin, touched, pulls,
                   lastPulled, prevPulled, fan>>

Next ==
    \/ \E rect \in Rects, resolution \in Resolutions : EllipseNew(rect, resolution)
    \/ \E o \in OffsetRadians, s \in SectionRadians : EllipseSection(o, s)
    \/ EllipseCircumference
    \/ EllipseTriangles
    \/ SectionCircumference
    \/ SectionTrangles
    \/ \E rect \in Rects, resolution \in Resolutions : CircumferenceNew(rect, resolution)
    \/ \E rect \in Rects, resolution \in Resolutions, radians \in SectionRadians :
          CircumferenceNewSection(rect, resolution, radians)
    \/ \E radians \in BuilderRadians : Section(radians)
    \/ \E radians \in OffsetRadians : OffsetRadiansCall(radians)
    \/ Triangles
    \/ Next_
    \/ Len_
    \/ SizeHint
    \/ TrianglesNext
    \/ TrianglesLen
    \/ TrianglesSizeHint

Spec == Init /\ [][Next]_vars

----------------------------------------------------------------------------
(* Vocabulary of the properties *)

\* The iterator c after k calls of next.
RECURSIVE Drain(_, _)
Drain(c, k) == IF k <= 0 THEN c ELSE Drain(Circumference_next(c).c, k - 1)

\* The k-th item (k = 1, 2, ...) of the iterator c.
Item(c, k) == Circumference_next(Drain(c, k - 1)).item

\* The angle a yielded point was computed at (both rectangles of Rects have
\* a non-zero height, so y keeps its term).
Angle(pt) == pt.y.arg

Max(a, b) == IF a >= b THEN a ELSE b

Constructed == origin.ctor # "none"
FromNew == origin.ctor \in {"Circumference::new", "Ellipse::circumference"}
FromSection == origin.ctor \in {"Circumference::new_section", "Section::circumference"}
Holding == pc \in {"circ", "tri"}

\* The latest call was a next of the Circumference held by the client.
Yielded == ret.op = "next" /\ ret.item.some
Exhausted == ret.op = "next" /\ ~ret.item.some
LenCalls == {"len", "size_hint", "Triangles::len", "Triangles::size_hint"}

----------------------------------------------------------------------------
(* C1 *)

\* C1 (as claimed): a full-circle iterator requested with any resolution
\* r >= 1 is built without a panic, has r + 1 - k points left after k calls
\* of next (len and both bounds of size_hint return that), and returns None
\* only after r + 1 points.
C1_FullCircleLength ==
    (FromNew /\ origin.resolution >= 1) =>
        /\ pc # "panicked"
        /\ Holding => Circumference_len(circ).v = origin.resolution + 1 - pulls
        /\ (pc = "circ" /\ ret.op = "len") =>
               ret.n = origin.resolution + 1 - pulls
        /\ (pc = "circ" /\ ret.op = "size_hint") =>
               /\ ret.n = origin.resolution + 1 - pulls
               /\ ret.item = Some(origin.resolution + 1 - pulls)
        /\ Exhausted => pulls = origin.resolution + 1

----------------------------------------------------------------------------
(* C2 *)

\* C2 (as claimed): an iterator built by new_section or Section::circumference
\* with any resolution has max(resolution, 1) + 1 points, its step is
\* radians / max(resolution, 1), and it returns None only after
\* max(resolution, 1) + 1 points.
C2_SectionClamped ==
    (FromSection /\ pc = "circ" /\ ~touched) =>
        /\ circ.num_points = Max(origin.resolution, 1) + 1
        /\ circ.rad_step =
               FDiv(origin.radians, FromUsize(Max(origin.resolution, 1)))
        /\ Exhausted => pulls = Max(origin.resolution, 1) + 1

----------------------------------------------------------------------------
(* C3 *)

\* The iterator Circumference::new builds for resolution 1.
ResolutionOne == Circumference_new(origin.rect, 1)

\* C3: a full-circle iterator requested with resolution 0 is, after any
\* number of calls of next, in the state the iterator requested with
\* resolution 1 is in after as many calls, it was built without a panic
\* from a finite step, every item it yields is the item of that iterator,
\* and so is every triangle of the fan built on it.
C3_ZeroIsOne ==
    (FromNew /\ origin.resolution = 0 /\ ~touched) =>
        /\ pc # "panicked"
        /\ ~ResolutionOne.panic
        /\ Holding =>
               /\ circ = Drain(ResolutionOne.c, pulls)
               /\ circ.num_points = 2
               /\ IsFinite(circ.rad_step)
        /\ Yielded => ret.item = Item(ResolutionOne.c, pulls)
        /\ Exhausted => Item(ResolutionOne.c, pulls + 1) = None
        /\ (ret.op = "Triangles::next" /\ ret.item.some) =>
               ret.item = Some(Tri(ResolutionOne.c.middle,
                                   Item(ResolutionOne.c, pulls - 1).val[1],
                                   Item(ResolutionOne.c, pulls).val[1]))

\* A full-circle iterator requested with resolution 0 has yielded its
\* second and last point.
C3_Witness ==
    /\ FromNew /\ origin.resolution = 0 /\ ~touched
    /\ pc = "circ" /\ Yielded /\ pulls = 2

----------------------------------------------------------------------------
(* C4 *)

\* What ellipse.circumference() returns for the ellipse of the section.
OfEllipse == Ellipse_circumference(Ellipse_new(origin.rect, origin.resolution))

\* C4 (as claimed): the iterator of ellipse.section(0, 2 pi) is, after any
\* number of calls of next, in the state the iterator of
\* ellipse.circumference() is in after as many calls (the same num_points,
\* step, offset and index, hence the same points and len), and one panics
\* exactly if the other does.
C4_SectionIsCircumference ==
    (/\ origin.ctor = "Section::circumference"
     /\ origin.offset = FZero /\ origin.radians = TwoPi
     /\ ~touched) =>
        /\ (pc = "panicked") = OfEllipse.panic
        /\ Holding => circ = Drain(OfEllipse.c, pulls)

----------------------------------------------------------------------------
(* C5 *)

FanExhausted == pc = "tri" /\ ret.op = "Triangles::next" /\ ~ret.item.some

\* C5 (as claimed): a fan built on a Circumference with n points left has
\* n - 1 - t triangles left after yielding t triangles (len and both bounds
\* of size_hint return that, which is the length of the wrapped
\* Circumference), and returns None after exactly n - 1 triangles.
C5_FanOfNMinusOne ==
    pc = "tri" =>
        /\ Triangles_len(circ).v = fan.n - 1 - fan.count
        /\ Triangles_len(circ).v = circ.num_points - circ.index
        /\ FanExhausted => fan.count = fan.n - 1

\* C5 (amended): a fan built on a Circumference with n points left has
\* max(n - 1, 0) - t triangles left after yielding t triangles (len and
\* both bounds of size_hint return that, which is the length of the wrapped
\* Circumference), and returns None after exactly max(n - 1, 0) triangles:
\* n - 1 for n >= 1, none for a Circumference that was already exhausted.
C5_FanLength ==
    pc = "tri" =>
        /\ Triangles_len(circ).v = Max(fan.n - 1, 0) - fan.count
        /\ Triangles_len(circ).v = circ.num_points - circ.index
        /\ ret.op = "Triangles::len" => ret.n = Max(fan.n - 1, 0) - fan.count
        /\ ret.op = "Triangles::size_hint" =>
               /\ ret.n = Max(fan.n - 1, 0) - fan.count
               /\ ret.item = Some(ret.n)
        /\ FanExhausted => fan.count = Max(fan.n - 1, 0)

\* A fan built on three or more points has yielded all its triangles.
C5_Witness == FanExhausted /\ fan.n >= 3 /\ fan.count = fan.n - 1

----------------------------------------------------------------------------
(* C6 *)

\* C6: in every state of a fan, last is the point most recently pulled from
\* the wrapped Circumference, or the centre if the Circumference was
\* exhausted when the fan was built; the latest triangle is (centre, the
\* point pulled before, the point pulled last), and its second vertex is
\* the third vertex of the triangle before it.
C6_LastIsLatestPoint ==
    pc = "tri" =>
        /\ last = IF fan.n = 0 THEN circ.middle ELSE lastPulled.val[1]
        /\ fan.tri.some =>
               fan.tri.val[1] =
                   Tri(circ.middle, prevPulled.val[1], lastPulled.val[1])
        /\ (ret.op = "Triangles::next" /\ ret.item.some) => ret.item = fan.tri
        /\ fan.prev.some => fan.tri.val[1][2] = fan.prev.val[1][3]

\* A fan has yielded two triangles or more.
C6_Witness ==
    /\ pc = "tri" /\ fan.count >= 2 /\ fan.prev.some
    /\ ret.op = "Triangles::next" /\ ret.item.some

----------------------------------------------------------------------------
(* C7 *)

\* The iterator is as a section constructor built it, for a resolution
\* r >= 1, and has yielded a point.
SectionPoint ==
    /\ FromSection /\ origin.resolution >= 1 /\ ~touched
    /\ Holding /\ lastPulled.some

\* The angle the code computes for the k-th point (k = 0, 1, ...) of a
\* section with offset o, span s and resolution r.
SectionAngle(o, s, r, k) == FAdd(o, FMul(FDiv(s, FromUsize(r)), FromUsize(k)))

\* C7 (as claimed): the k-th point of a section with offset o, span s and
\* resolution r >= 1 is computed at the angle o + k * (s / r), the first
\* at o and the last (k = r) at o + s; in the full-circle case (o = 0,
\* s = 2 pi) the last angle is the first plus exactly one full turn.
C7_AnglesExact ==
    SectionPoint =>
        /\ Angle(lastPulled.val[1]) =
               SectionAngle(origin.offset, origin.radians, origin.resolution,
                            pulls - 1)
        /\ pulls = 1 => Angle(lastPulled.val[1]) = origin.offset
        /\ pulls = origin.resolution + 1 =>
               Angle(lastPulled.val[1]) = FAdd(origin.offset, origin.radians)

\* The quotient s / r is a value of the scalar type: the division that
\* computes the step does not round.
ExactQuotient(s, r) ==
    LET res == FromUsize(r)
        step == FDiv(s, res)
    IN  IsFinite(step) /\ step.v * res.v = s.v * Unit

\* C7 (amended): the k-th point of a section with finite offset o, finite
\* span s and resolution r >= 1 is computed, in the rounded arithmetic of
\* the scalar type, at the angle o + k * (s / r): the first at o itself,
\* and the last (k = r) at o + s when the quotient s / r is a value of the
\* scalar type (otherwise only up to the rounding of the quotient and of
\* its product with r, so that the ends of a full circle need not coincide
\* exactly).
C7_AnglesRounded ==
    SectionPoint =>
        /\ Angle(lastPulled.val[1]) =
               SectionAngle(origin.offset, origin.radians, origin.resolution,
                            pulls - 1)
        /\ pulls = 1 => Angle(lastPulled.val[1]) = origin.offset
        /\ (/\ pulls = origin.resolution + 1
            /\ ExactQuotient(origin.radians, origin.resolution)) =>
               Angle(lastPulled.val[1]) = FAdd(origin.offset, origin.radians)

\* The last point of a section of resolution 2 with a non-zero offset and
\* a non-zero span, whose step is exact, has been yielded.
C7_Witness ==
    /\ SectionPoint /\ origin.resolution = 2 /\ pulls = 3
    /\ origin.offset # FZero /\ origin.radians # FZero
    /\ ExactQuotient(origin.radians, origin.resolution)

----------------------------------------------------------------------------
(* C8 *)

C8_State ==
    /\ Holding =>
           /\ 0 <= circ.index /\ circ.index <= circ.num_points
           /\ ~USub(circ.num_points, circ.index).ovf
    /\ ret.op \in LenCalls =>
           /\ pc # "panicked"
           /\ ret.n = circ.num_points - circ.index

C8_Step ==
    /\ (Holding /\ pc' \in {"circ", "tri"}) =>
           /\ circ'.index >= circ.index
           /\ circ'.num_points = circ.num_points
    /\ (pc = "circ" /\ circ.index = circ.num_points /\ ret'.op = "next") =>
           /\ ret'.item = None
           /\ circ' = circ
           /\ pc' = pc /\ pulls' = pulls /\ lastPulled' = lastPulled

\* C8: in every state of a Circumference 0 <= index <= num_points and
\* len() = num_points - index without underflow; no call of next, section,
\* offset_radians, len or size_hint decreases index or changes num_points;
\* and a call of next at index = num_points returns None and changes
\* nothing.
C8_IndexBounded == [](C8_State) /\ [][C8_Step]_vars

\* next was called on an exhausted Circumference that had points, after a
\* builder call.
C8_Witness ==
    /\ pc = "circ" /\ Exhausted /\ touched
    /\ circ.index = circ.num_points /\ circ.num_points >= 2

----------------------------------------------------------------------------
(* C9 *)

C9_Step ==
    /\ ret'.op = "offset_radians" =>
           /\ pc' = pc
           /\ circ' = [circ EXCEPT !.rad_offset = ret'.arg.val[1]]
    /\ (ret'.op = "section" /\ pc' = "circ") =>
           circ' = [circ EXCEPT !.rad_step =
                       FDiv(ret'.arg.val[1],
                            FromUsize((circ.num_points - 1) % UsizeMod))]

\* C9: offset_radians(radians) sets rad_offset to radians and section(radians)
\* sets rad_step to radians / (num_points - 1), the subtraction being that
\* of usize; each leaves every other field of the Circumference as it was.
C9_BuildersFrame == [][C9_Step]_vars

\* section was called on a Circumference that had yielded some of its
\* points, not all.
C9_Witness ==
    /\ pc = "circ" /\ ret.op = "section"
    /\ 0 < circ.index /\ circ.index < circ.num_points

----------------------------------------------------------------------------
(* C10 *)

\* C10 (as claimed): no constructor panics, every Circumference has
\* num_points >= 1, and num_points - 1 does not underflow in section.
C10_NumPointsPositive ==
    Constructed =>
        /\ pc # "panicked"
        /\ Holding =>
               /\ circ.num_points >= 1
               /\ ~USub(circ.num_points, 1).ovf

====
